---- MODULE Spec2Model ----
(***************************************************************************)
(* Model of the WhatsApp bot session service (src/server.js).              *)
(*                                                                         *)
(* One Node.js event loop runs every handler.  A handler runs atomically   *)
(* from one `await` to the next, so every action below is the code between *)
(* two suspension points of one handler.  The Connection Client (Baileys), *)
(* the file system and the backend are the environment: their outcomes     *)
(* (success / throw, the event a client emits) are nondeterministic.       *)
(* The creds.update listener (saveCreds) only rewrites files inside the    *)
(* session directory and is not modelled.                                  *)
(***************************************************************************)
EXTENDS Naturals, Integers, Sequences, FiniteSets, Bags, TLC

(* ---------------- bounds of the model ---------------- *)
\* number of Connection Clients makeWASocket may open in one run
MaxSocks == 2
\* number of /bot/destroy requests that may be in flight together
MaxDestroying == 1
\* number of messages one messages.upsert event may carry
MaxMessages == 2
\* number of forwardToLaravel calls that may await the backend together
MaxForwarding == 1

(* ---------------- program constants ---------------- *)
ReconnectDelay == 3000
HeartbeatInterval == 30000
WebhookTimeout == 5000

SessionIds == {"a", "b"}
\* the specifications about one session alone use this one
OneSession == {"a"}
\* the value of req.body.sessionId when the field is missing (falsy)
NoId == ""
\* activeSessions.get() of an absent key (undefined)
Undefined == 0
\* DisconnectReason.loggedOut against every other close cause
Causes == {"loggedOut", "other"}

VARIABLES
    activeSessions,  \* the Map: sequence of [key, sock] in insertion order
    socks,           \* every client makeWASocket has returned, by index
    creating,        \* bag of createBotSession invocations in flight
    reconnectTimers, \* bag of pending setTimeout(createBotSession) timers
    closing,         \* close handlers awaiting their webhook:
                     \* [sock, cause, shouldReconnect]
    opening,         \* socks whose open handler awaits its webhook
    heartbeats,      \* bag of live setInterval timers of startHeartbeat
    destroying,      \* bag of /bot/destroy requests in flight
    restore,         \* restoreSessions: its position and remaining names,
                     \* with the names it listed and those it has called
                     \* createBotSession for
    disk,            \* session directories present under ./sessions
    openedSince,     \* history: sessionId saw an open event since it was
                     \* last removed from activeSessions
    forwarding,      \* bag of forwardToLaravel calls awaiting the backend
    destroyedSince,  \* history: /bot/destroy answered for the sessionId,
                     \* leaving it unregistered with no create request in
                     \* flight, and /bot/create has not accepted it since
    out              \* what the last step emitted: HTTP responses,
                     \* webhooks, returns of createBotSession

vars == <<activeSessions, socks, creating, reconnectTimers, closing, opening,
          heartbeats, destroying, restore, disk, openedSince, forwarding,
          destroyedSince, out>>

(* ---------------- the Map activeSessions ---------------- *)
Has(m, k) == \E i \in 1..Len(m) : m[i].key = k

Get(m, k) ==
    IF Has(m, k) THEN m[CHOOSE i \in 1..Len(m) : m[i].key = k].sock
    ELSE Undefined

MapSet(m, k, v) ==
    IF Has(m, k)
    THEN [i \in 1..Len(m) |-> IF m[i].key = k THEN [key |-> k, sock |-> v]
                                               ELSE m[i]]
    ELSE Append(m, [key |-> k, sock |-> v])

IsNotKey(e, k) == e.key # k

MapDelete(m, k) == SelectSeq(m, LAMBDA e : IsNotKey(e, k))

Keys(m) == [i \in 1..Len(m) |-> m[i].key]

Size(m) == Len(m)

(* ---------------- outputs of a step ---------------- *)
Http(op, sid, status) ==
    [type |-> "http", op |-> op, sessionId |-> sid, status |-> status]

HttpList(sessions, count) ==
    [type |-> "http", op |-> "sessions", sessionId |-> NoId, status |-> 200,
     sessions |-> sessions, count |-> count]

HttpHealth(n) ==
    [type |-> "http", op |-> "health", sessionId |-> NoId, status |-> 200,
     activeSessions |-> n]

\* sendWebhook(endpoint, data): the POST is issued when it is called; its
\* failure is caught and logged, so the call never throws
sendWebhook(endpoint, data) ==
    [type |-> "webhook", endpoint |-> endpoint, data |-> data,
     timeout |-> WebhookTimeout]

\* phoneInfo: null
Null == <<>>

ConnectionUpdate(sid, status, phoneInfo) ==
    sendWebhook("/api/webhook/wa/connection-update",
                [sessionId |-> sid, status |-> status,
                 phoneInfo |-> phoneInfo])

Heartbeat(sid) ==
    sendWebhook("/api/webhook/wa/heartbeat", [sessionId |-> sid])

QrUpdateHook(sid) ==
    sendWebhook("/api/webhook/wa/qr-update",
                [sessionId |-> sid, qrCode |-> "dataURL"])

\* createBotSession returned to its caller, after the catch block or not
Returned(sid, caller, failed) ==
    [type |-> "return", sessionId |-> sid, caller |-> caller,
     failed |-> failed]

\* the connection.update handler of a close event ran to its end
Handled(sid, cause) ==
    [type |-> "handled", sessionId |-> sid, cause |-> cause]

(* ---------------- the account of a client ---------------- *)
\* sock.user.id, as the sequence of its parts: the number, an optional
\* ":device", the "@server"
UserIds ==
    {<<"123", "@", "s.whatsapp.net">>,
     <<"123", ":", "7", "@", "s.whatsapp.net">>}

UserNames == {"Alice"}

RECURSIVE BeforeSep(_, _)
\* str.split(sep)[0]: the parts before the first sep, all of them when
\* there is none
BeforeSep(id, sep) ==
    IF id = <<>> \/ Head(id) = sep THEN <<>>
    ELSE <<Head(id)>> \o BeforeSep(Tail(id), sep)

PhoneInfo(user) ==
    [jid |-> user.id, name |-> user.name, phone |-> BeforeSep(user.id, ":")]

(* ---------------- Connection Clients ---------------- *)
Live(s) == socks[s].status \in {"connecting", "open"}

\* makeWASocket returns a client that is connecting
NewSock(sid) == [sessionId |-> sid, status |-> "connecting"]

\* the process after app.listen: nothing registered, restoreSessions not
\* yet run, any of the directories `dirs` already under ./sessions
Boot(dirs) ==
    /\ activeSessions = <<>>
    /\ socks = <<>>
    /\ creating = EmptyBag
    /\ reconnectTimers = EmptyBag
    /\ closing = {}
    /\ opening = {}
    /\ heartbeats = EmptyBag
    /\ destroying = EmptyBag
    /\ restore = [pc |-> "start", queue |-> <<>>, listed |-> <<>>,
                  called |-> <<>>]
    /\ disk \in SUBSET dirs
    /\ openedSince = [sid \in SessionIds |-> FALSE]
    /\ forwarding = EmptyBag
    /\ destroyedSince = [sid \in SessionIds |-> FALSE]
    /\ out = <<>>

One(e) == SetToBag({e})

\* room for one more createBotSession: each one in flight may open a client
CanStart == Len(socks) + BagCardinality(creating) < MaxSocks

\* createBotSession(sessionId) up to its first await (useMultiFileAuthState)
createBotSession(sid, caller) ==
    One([sessionId |-> sid, pc |-> "loadCreds", caller |-> caller])

Replace(bag, old, new) == (bag (-) One(old)) (+) One(new)

\* the close event of client s: the part of the connection.update handler
\* before its await (shouldReconnect is fixed by the cause, the
\* disconnected webhook is issued)
Closed(s) == [socks EXCEPT ![s].status = "closed"]

CloseOut(s) == <<ConnectionUpdate(socks[s].sessionId, "disconnected", Null)>>

\* a variant that reconnects after every close, logout included
shouldReconnectAlways(cause) == cause \in Causes

shouldReconnect(cause) == cause # "loggedOut"

CloseHandlers(s, cause) ==
    {[sock |-> s, cause |-> cause, shouldReconnect |-> shouldReconnect(cause)]}

\* activeSessions.delete(sid), with the history of open events
Removed(sid) ==
    IF Has(activeSessions, sid) THEN [openedSince EXCEPT ![sid] = FALSE]
    ELSE openedSince

\* createBotSession returns to its caller: the create endpoint answers 200,
\* restoreSessions goes on to the next directory
ReturnOut(t, failed) ==
    <<Returned(t.sessionId, t.caller, failed)>> \o
    (IF t.caller = "api" THEN <<Http("create", t.sessionId, 200)>> ELSE <<>>)

ReturnRestore(t) ==
    IF t.caller = "restore"
    THEN [restore EXCEPT !.pc = IF restore.queue = <<>> THEN "done"
                                                         ELSE "ready"]
    ELSE restore

(* ---------------- POST /bot/create ---------------- *)
\* a variant without the activeSessions.has check
ApiCreateUnguarded(sid) ==
    IF sid = NoId
    THEN /\ out' = <<Http("create", sid, 400)>>
         /\ UNCHANGED <<activeSessions, socks, creating, reconnectTimers,
                        closing, opening, heartbeats, destroying, restore,
                        disk, openedSince,
                   forwarding, destroyedSince>>
    ELSE /\ CanStart
         /\ creating' = creating (+) createBotSession(sid, "api")
         /\ destroyedSince' = [destroyedSince EXCEPT ![sid] = FALSE]
         /\ out' = <<>>
         /\ UNCHANGED <<activeSessions, socks, reconnectTimers, closing,
                        opening, heartbeats, destroying, restore, disk,
                        openedSince, forwarding>>

ApiCreate(sid) ==
    IF sid = NoId \/ Has(activeSessions, sid)
    THEN /\ out' = <<Http("create", sid, 400)>>
         /\ UNCHANGED <<activeSessions, socks, creating, reconnectTimers,
                        closing, opening, heartbeats, destroying, restore,
                        disk, openedSince,
                   forwarding, destroyedSince>>
    ELSE /\ CanStart
         /\ creating' = creating (+) createBotSession(sid, "api")
         /\ destroyedSince' = [destroyedSince EXCEPT ![sid] = FALSE]
         /\ out' = <<>>
         /\ UNCHANGED <<activeSessions, socks, reconnectTimers, closing,
                        opening, heartbeats, destroying, restore, disk,
                        openedSince, forwarding>>

(* ---------------- createBotSession ---------------- *)
\* useMultiFileAuthState resolved: the session directory exists
LoadCredsOk(t) ==
    /\ t.pc = "loadCreds"
    /\ disk' = disk \cup {t.sessionId}
    /\ creating' = Replace(creating, t, [t EXCEPT !.pc = "fetchVersion"])
    /\ out' = <<>>
    /\ UNCHANGED <<activeSessions, socks, reconnectTimers, closing, opening,
                   heartbeats, destroying, restore, openedSince,
                   forwarding, destroyedSince>>

\* the catch block up to its await: one disconnected webhook
Catch(t) ==
    /\ creating' = Replace(creating, t, [t EXCEPT !.pc = "catch"])
    /\ out' = <<ConnectionUpdate(t.sessionId, "disconnected", Null)>>

\* useMultiFileAuthState or fetchLatestBaileysVersion rejected, or
\* makeWASocket threw.  (The three sock.ev.on calls only add listeners to
\* the client's emitter and do not throw.)
CreateThrows(t) ==
    /\ t.pc \in {"loadCreds", "fetchVersion"}
    /\ Catch(t)
    /\ UNCHANGED <<activeSessions, socks, reconnectTimers, closing, opening,
                   heartbeats, destroying, restore, disk, openedSince,
                   forwarding, destroyedSince>>

\* fetchLatestBaileysVersion resolved: makeWASocket, the three
\* subscriptions, activeSessions.set, return sock
Register(t) ==
    /\ t.pc = "fetchVersion"
    /\ socks' = Append(socks, NewSock(t.sessionId))
    /\ activeSessions' = MapSet(activeSessions, t.sessionId, Len(socks) + 1)
    /\ creating' = creating (-) One(t)
    /\ restore' = ReturnRestore(t)
    /\ out' = ReturnOut(t, FALSE)
    /\ UNCHANGED <<reconnectTimers, closing, opening, heartbeats,
                   destroying, disk, openedSince,
                   forwarding, destroyedSince>>

\* the webhook of the catch block settled: createBotSession returns
CatchDone(t) ==
    /\ t.pc = "catch"
    /\ creating' = creating (-) One(t)
    /\ restore' = ReturnRestore(t)
    /\ out' = ReturnOut(t, TRUE)
    /\ UNCHANGED <<activeSessions, socks, reconnectTimers, closing, opening,
                   heartbeats, destroying, disk, openedSince,
                   forwarding, destroyedSince>>

(* ---------------- connection.update ---------------- *)
\* a qr update: QRCode.toDataURL, then the qr-update webhook (none when
\* the encoding rejects)
QrUpdate(s, encoded) ==
    /\ socks[s].status = "connecting"
    /\ out' = IF encoded
              THEN <<QrUpdateHook(socks[s].sessionId)>>
              ELSE <<>>
    /\ UNCHANGED <<activeSessions, socks, creating, reconnectTimers, closing,
                   opening, heartbeats, destroying, restore, disk,
                   openedSince,
                   forwarding, destroyedSince>>

\* the client emits connection === "close"
SockClose(s, cause) ==
    /\ Live(s)
    /\ socks' = Closed(s)
    /\ closing' = closing \cup CloseHandlers(s, cause)
    /\ out' = CloseOut(s)
    /\ UNCHANGED <<activeSessions, creating, reconnectTimers, opening,
                   heartbeats, destroying, restore, disk, openedSince,
                   forwarding, destroyedSince>>

\* the disconnected webhook settled: reconnect timer or delete
\* a variant that arms the reconnect timer twice
setTimeoutTwice(sid) ==
    One([sessionId |-> sid, delay |-> ReconnectDelay])
        (+) One([sessionId |-> sid, delay |-> ReconnectDelay])

setTimeout(sid) == One([sessionId |-> sid, delay |-> ReconnectDelay])

CloseWebhookDone(c) ==
    /\ c \in closing
    /\ closing' = closing \ {c}
    /\ out' = <<Handled(socks[c.sock].sessionId, c.cause)>>
    /\ IF c.shouldReconnect
       THEN /\ reconnectTimers' =
                   reconnectTimers (+) setTimeout(socks[c.sock].sessionId)
            /\ UNCHANGED <<activeSessions, openedSince>>
       ELSE /\ activeSessions' =
                   MapDelete(activeSessions, socks[c.sock].sessionId)
            /\ openedSince' = Removed(socks[c.sock].sessionId)
            /\ UNCHANGED reconnectTimers
    /\ UNCHANGED <<socks, creating, opening, heartbeats, destroying, restore,
                   disk,
                   forwarding, destroyedSince>>

\* the reconnect timer fires: createBotSession(sessionId)
TimerFire(tm) ==
    /\ CanStart
    /\ reconnectTimers' = reconnectTimers (-) One(tm)
    /\ creating' = creating (+) createBotSession(tm.sessionId, "timer")
    /\ out' = <<>>
    /\ UNCHANGED <<activeSessions, socks, closing, opening, heartbeats,
                   destroying, restore, disk, openedSince,
                   forwarding, destroyedSince>>

\* the client emits connection === "open": the connected webhook
SockOpen(s, user) ==
    /\ socks[s].status = "connecting"
    /\ socks' = [socks EXCEPT ![s].status = "open"]
    /\ opening' = opening \cup {s}
    /\ openedSince' = [openedSince EXCEPT ![socks[s].sessionId] = TRUE]
    /\ out' = <<ConnectionUpdate(socks[s].sessionId, "connected",
                                 <<PhoneInfo(user)>>)>>
    /\ UNCHANGED <<activeSessions, creating, reconnectTimers, closing,
                   heartbeats, destroying, restore, disk,
                   forwarding, destroyedSince>>

\* the connected webhook settled: startHeartbeat(sessionId)
startHeartbeat(sid) ==
    heartbeats (+) One([sessionId |-> sid, every |-> HeartbeatInterval])

OpenWebhookDone(s) ==
    /\ s \in opening
    /\ opening' = opening \ {s}
    /\ heartbeats' = startHeartbeat(socks[s].sessionId)
    /\ out' = <<>>
    /\ UNCHANGED <<activeSessions, socks, creating, reconnectTimers, closing,
                   destroying, restore, disk, openedSince,
                   forwarding, destroyedSince>>

(* ---------------- the heartbeat interval ---------------- *)
HeartbeatTick(h) ==
    IF ~Has(activeSessions, h.sessionId)
    THEN /\ heartbeats' = heartbeats (-) One(h)
         /\ out' = <<>>
         /\ UNCHANGED <<activeSessions, socks, creating, reconnectTimers,
                        closing, opening, destroying, restore, disk,
                        openedSince,
                   forwarding, destroyedSince>>
    ELSE /\ out' = <<Heartbeat(h.sessionId)>>
         /\ UNCHANGED <<activeSessions, socks, creating, reconnectTimers,
                        closing, opening, heartbeats, destroying, restore,
                        disk, openedSince,
                   forwarding, destroyedSince>>

(* ---------------- POST /bot/destroy ---------------- *)
\* a variant that answers 404 for a sessionId that is not registered
ApiDestroyUnknown404(sid) ==
    IF sid = NoId \/ ~Has(activeSessions, sid)
    THEN /\ out' = <<Http("destroy", sid, IF sid = NoId THEN 400 ELSE 404)>>
         /\ UNCHANGED <<activeSessions, socks, creating, reconnectTimers,
                        closing, opening, heartbeats, destroying, restore,
                        disk, openedSince,
                   forwarding, destroyedSince>>
    ELSE /\ BagCardinality(destroying) < MaxDestroying
         /\ destroying' = destroying (+)
                One([sessionId |-> sid, pc |-> "logout",
                     sock |-> Get(activeSessions, sid)])
         /\ out' = <<>>
         /\ UNCHANGED <<activeSessions, socks, creating, reconnectTimers,
                        closing, opening, heartbeats, restore, disk,
                        openedSince,
                   forwarding, destroyedSince>>

\* up to the first await: sock.logout() of the registered client, or
\* fsp.rm when there is none
ApiDestroy(sid) ==
    IF sid = NoId
    THEN /\ out' = <<Http("destroy", sid, 400)>>
         /\ UNCHANGED <<activeSessions, socks, creating, reconnectTimers,
                        closing, opening, heartbeats, destroying, restore,
                        disk, openedSince,
                   forwarding, destroyedSince>>
    ELSE /\ BagCardinality(destroying) < MaxDestroying
         /\ destroying' = destroying (+)
                One([sessionId |-> sid,
                     pc |-> IF Get(activeSessions, sid) # Undefined
                            THEN "logout" ELSE "rm",
                     sock |-> Get(activeSessions, sid)])
         /\ out' = <<>>
         /\ UNCHANGED <<activeSessions, socks, creating, reconnectTimers,
                        closing, opening, heartbeats, restore, disk,
                        openedSince,
                   forwarding, destroyedSince>>

\* a variant that keeps the registry entry when logout rejects
LogoutDoneKeepsOnFailure(d, ok) ==
    /\ d.pc = "logout"
    /\ ok => Live(d.sock)
    /\ IF ok
       THEN /\ socks' = Closed(d.sock)
            /\ closing' = closing \cup CloseHandlers(d.sock, "loggedOut")
            /\ out' = CloseOut(d.sock)
            /\ activeSessions' = MapDelete(activeSessions, d.sessionId)
            /\ openedSince' = Removed(d.sessionId)
       ELSE /\ out' = <<>>
            /\ UNCHANGED <<socks, closing, activeSessions, openedSince>>
    /\ destroying' = Replace(destroying, d, [d EXCEPT !.pc = "rm"])
    /\ UNCHANGED <<creating, reconnectTimers, opening, heartbeats, restore,
                   disk,
                   forwarding, destroyedSince>>

\* sock.logout() settled.  It resolves only on a live client, which it
\* ends with DisconnectReason.loggedOut (the client emits its close event);
\* it rejects on a closed client and may reject on a live one, which then
\* stays as it was.  Either way: activeSessions.delete, then fsp.rm.
LogoutDone(d, ok) ==
    /\ d.pc = "logout"
    /\ ok => Live(d.sock)
    /\ IF ok
       THEN /\ socks' = Closed(d.sock)
            /\ closing' = closing \cup CloseHandlers(d.sock, "loggedOut")
            /\ out' = CloseOut(d.sock)
       ELSE /\ out' = <<>>
            /\ UNCHANGED <<socks, closing>>
    /\ activeSessions' = MapDelete(activeSessions, d.sessionId)
    /\ openedSince' = Removed(d.sessionId)
    /\ destroying' = Replace(destroying, d, [d EXCEPT !.pc = "rm"])
    /\ UNCHANGED <<creating, reconnectTimers, opening, heartbeats, restore,
                   disk,
                   forwarding, destroyedSince>>

\* fsp.rm settled (its failure is logged): the endpoint answers 200
RmDone(d, ok) ==
    /\ d.pc = "rm"
    /\ disk' = IF ok THEN disk \ {d.sessionId} ELSE disk
    /\ destroying' = destroying (-) One(d)
    /\ destroyedSince' =
           [destroyedSince EXCEPT ![d.sessionId] =
               /\ ~Has(activeSessions, d.sessionId)
               /\ \A t \in BagToSet(creating) :
                      t.sessionId = d.sessionId => t.caller # "api"]
    /\ out' = <<Http("destroy", d.sessionId, 200)>>
    /\ UNCHANGED <<activeSessions, socks, creating, reconnectTimers, closing,
                   opening, heartbeats, restore, openedSince, forwarding>>

(* ---------------- GET /bot/sessions, GET /health ---------------- *)
\* a variant that counts the clients opened instead of the keys
ApiSessionsCountsClients ==
    /\ out' = <<HttpList(Keys(activeSessions), Len(socks))>>
    /\ UNCHANGED <<activeSessions, socks, creating, reconnectTimers, closing,
                   opening, heartbeats, destroying, restore, disk,
                   openedSince,
                   forwarding, destroyedSince>>

ApiSessions ==
    /\ out' = <<HttpList(Keys(activeSessions), Len(Keys(activeSessions)))>>
    /\ UNCHANGED <<activeSessions, socks, creating, reconnectTimers, closing,
                   opening, heartbeats, destroying, restore, disk,
                   openedSince,
                   forwarding, destroyedSince>>

ApiHealth ==
    /\ out' = <<HttpHealth(Size(activeSessions))>>
    /\ UNCHANGED <<activeSessions, socks, creating, reconnectTimers, closing,
                   opening, heartbeats, destroying, restore, disk,
                   openedSince,
                   forwarding, destroyedSince>>

(* ---------------- restoreSessions ---------------- *)
\* the orders in which readdirSync may list a set of directories
Orders(S) ==
    {q \in [1..Cardinality(S) -> S] :
        \A i, j \in 1..Cardinality(S) : i # j => q[i] # q[j]}

RestoreList(q) ==
    /\ restore.pc = "start"
    /\ q \in Orders(disk)
    /\ restore' = [pc |-> IF q = <<>> THEN "done" ELSE "ready", queue |-> q,
                   listed |-> q, called |-> <<>>]
    /\ out' = <<>>
    /\ UNCHANGED <<activeSessions, socks, creating, reconnectTimers, closing,
                   opening, heartbeats, destroying, disk, openedSince,
                   forwarding, destroyedSince>>

\* a variant that goes on to the next directory without awaiting
RestoreNextNoAwait ==
    /\ restore.pc = "ready"
    /\ CanStart
    /\ creating' = creating (+) createBotSession(Head(restore.queue),
                                                  "restore")
    /\ restore' = [restore EXCEPT
                      !.pc = IF Tail(restore.queue) = <<>> THEN "await"
                                                           ELSE "ready",
                      !.queue = Tail(restore.queue),
                      !.called = Append(restore.called, Head(restore.queue))]
    /\ out' = <<>>
    /\ UNCHANGED <<activeSessions, socks, reconnectTimers, closing, opening,
                   heartbeats, destroying, disk, openedSince,
                   forwarding, destroyedSince>>

\* the next turn of the for loop: await createBotSession(sessionId)
RestoreNext ==
    /\ restore.pc = "ready"
    /\ CanStart
    /\ creating' = creating (+) createBotSession(Head(restore.queue),
                                                  "restore")
    /\ restore' = [restore EXCEPT
                      !.pc = "await",
                      !.queue = Tail(restore.queue),
                      !.called = Append(restore.called, Head(restore.queue))]
    /\ out' = <<>>
    /\ UNCHANGED <<activeSessions, socks, reconnectTimers, closing, opening,
                   heartbeats, destroying, disk, openedSince,
                   forwarding, destroyedSince>>

(* ---------------- messages.upsert ---------------- *)
\* msg.key.remoteJid
Senders == {"628@s.whatsapp.net"}

\* msg.message when the message has none
NoMessage == <<>>

\* msg.message otherwise: its conversation and its
\* extendedTextMessage.text, "" for a missing one
Contents ==
    {[conversation |-> "hi", extended |-> ""],
     [conversation |-> "", extended |-> "yo"],
     [conversation |-> "", extended |-> ""]}

\* a message of another account with or without content, and one of the
\* account itself
Messages ==
    [fromMe : {FALSE}, remoteJid : Senders,
     message : {NoMessage} \cup {<<c>> : c \in Contents}]
        \cup [fromMe : {TRUE}, remoteJid : Senders,
              message : {<<[conversation |-> "hi", extended |-> ""]>>}]

\* m.messages
Events == UNION {[1..n -> Messages] : n \in 0..MaxMessages}

\* the outcomes of the POST to the backend: it rejects, or it resolves
\* with response.data?.reply undefined, "" or a text
Replies == {Null, <<"">>, <<"pong">>}

Responses ==
    {[ok |-> FALSE, reply |-> Null]} \cup {[ok |-> TRUE, reply |-> x] :
                                              x \in Replies}

\* conversation || extendedTextMessage.text || ""
messageText(content) ==
    IF content.conversation # "" THEN content.conversation
    ELSE IF content.extended # "" THEN content.extended
    ELSE ""

\* if (reply)
Truthy(reply) == reply # Null /\ reply # <<"">>

\* the event a step handles, for the properties to read
Upsert(s, m) ==
    [type |-> "event", name |-> "messages.upsert", sock |-> s,
     messages |-> m]

\* the response a step receives, for the properties to read
Response(f, r) == [type |-> "response", to |-> f, response |-> r]

\* axios.post of forwardToLaravel
IncomingMessage(sid, from, text) ==
    [type |-> "webhook", endpoint |-> "/api/webhook/wa/incoming-message",
     data |-> [sessionId |-> sid, from |-> from, text |-> text]]

\* sock.sendMessage(sender, {text: reply})
SendMessage(s, jid, text) ==
    [type |-> "sendMessage", sock |-> s, jid |-> jid, text |-> text]

\* the promise of the async listener rejects and nothing handles it
Uncaught(sid, error) ==
    [type |-> "unhandledRejection", sessionId |-> sid, error |-> error]

\* forwardToLaravel(sock, msg, sessionId) up to its await
forwardToLaravel(s, msg) ==
    One([sock |-> s, sessionId |-> socks[s].sessionId,
         sender |-> msg.remoteJid, text |-> messageText(msg.message[1])])

\* the messages.upsert listener of client s.  m.messages[0] of an event
\* without messages is undefined and msg.key throws a TypeError outside
\* any try block.
MessagesUpsert(s, m) ==
    /\ socks[s].status = "open"
    /\ IF m = <<>>
       THEN /\ out' = <<Upsert(s, m),
                        Uncaught(socks[s].sessionId, "TypeError")>>
            /\ UNCHANGED forwarding
       ELSE IF ~m[1].fromMe /\ m[1].message # NoMessage
       THEN /\ BagCardinality(forwarding) < MaxForwarding
            /\ forwarding' = forwarding (+) forwardToLaravel(s, m[1])
            /\ out' = <<Upsert(s, m),
                        IncomingMessage(socks[s].sessionId, m[1].remoteJid,
                                        messageText(m[1].message[1]))>>
       ELSE /\ out' = <<Upsert(s, m)>>
            /\ UNCHANGED forwarding
    /\ UNCHANGED <<activeSessions, socks, creating, reconnectTimers, closing,
                   opening, heartbeats, destroying, restore, disk,
                   openedSince, destroyedSince>>

\* a variant that sends whatever the backend answered
BackendDoneUnguarded(f, r) ==
    /\ forwarding' = forwarding (-) One(f)
    /\ out' = <<Response(f, r)>> \o
              (IF r.ok
               THEN <<SendMessage(f.sock, f.sender,
                                  IF Truthy(r.reply) THEN r.reply[1] ELSE "")>>
               ELSE <<>>)
    /\ UNCHANGED <<activeSessions, socks, creating, reconnectTimers, closing,
                   opening, heartbeats, destroying, restore, disk,
                   openedSince, destroyedSince>>

\* the POST settled: the reply, if any, goes out through the client the
\* listener belongs to.  sendMessage rejects on a client that has closed;
\* that and a rejected POST end in the catch block, which only logs.
BackendDone(f, r) ==
    /\ forwarding' = forwarding (-) One(f)
    /\ out' = <<Response(f, r)>> \o
              (IF r.ok /\ Truthy(r.reply)
               THEN <<SendMessage(f.sock, f.sender, r.reply[1])>>
               ELSE <<>>)
    /\ UNCHANGED <<activeSessions, socks, creating, reconnectTimers, closing,
                   opening, heartbeats, destroying, restore, disk,
                   openedSince, destroyedSince>>

(* ---------------- specifications ---------------- *)
\* the steps of createBotSession invocations in flight
CreateSteps ==
    \/ \E t \in BagToSet(creating) : LoadCredsOk(t)
    \/ \E t \in BagToSet(creating) : CreateThrows(t)
    \/ \E t \in BagToSet(creating) : Register(t)
    \/ \E t \in BagToSet(creating) : CatchDone(t)

\* the steps of /bot/destroy requests in flight
DestroySteps ==
    \/ \E d \in BagToSet(destroying), ok \in BOOLEAN : LogoutDone(d, ok)
    \/ \E d \in BagToSet(destroying), ok \in BOOLEAN : RmDone(d, ok)

\* close events, their handlers and the reconnect timers
CloseSteps ==
    \/ \E s \in 1..Len(socks), cause \in Causes : SockClose(s, cause)
    \/ \E c \in closing : CloseWebhookDone(c)
    \/ \E tm \in BagToSet(reconnectTimers) : TimerFire(tm)

RestoreSteps ==
    \/ \E q \in Orders(disk) : RestoreList(q)
    \/ RestoreNext

MessageSteps ==
    \/ \E s \in 1..Len(socks), m \in Events : MessagesUpsert(s, m)
    \/ \E f \in BagToSet(forwarding), r \in Responses : BackendDone(f, r)

OpenSteps ==
    \/ \E s \in 1..Len(socks), encoded \in BOOLEAN : QrUpdate(s, encoded)
    \/ \E s \in 1..Len(socks), id \in UserIds, name \in UserNames :
           SockOpen(s, [id |-> id, name |-> name])
    \/ \E s \in 1..Len(socks) : OpenWebhookDone(s)
    \/ \E h \in BagToSet(heartbeats) : HeartbeatTick(h)

\* Spec: the lifecycle of one session, that is everything that reads or
\* writes activeSessions to decide what to do: the two endpoints, every
\* createBotSession, the close events with their reconnect timers, and
\* restoreSessions.  Open events, heartbeats and the read-only endpoints
\* never change what these steps read; they are in the specifications below.
Init == Boot(OneSession)

Next ==
    \/ \E sid \in OneSession \cup {NoId} : ApiCreate(sid)
    \/ \E sid \in OneSession \cup {NoId} : ApiDestroy(sid)
    \/ CreateSteps
    \/ DestroySteps
    \/ CloseSteps
    \/ RestoreSteps

Spec == Init /\ [][Next]_vars

\* SpecHeartbeat: one session with its qr and open events and heartbeat
\* intervals, on a service that starts with no directory to restore.
InitHeartbeat == Boot({})

NextHeartbeat ==
    \/ \E sid \in OneSession : ApiCreate(sid)
    \/ \E sid \in OneSession : ApiDestroy(sid)
    \/ CreateSteps
    \/ DestroySteps
    \/ CloseSteps
    \/ OpenSteps

SpecHeartbeat == InitHeartbeat /\ [][NextHeartbeat]_vars

\* SpecApi: two sessions under the four endpoints; the clients close only
\* by logout.
InitApi == Boot({})

NextApi ==
    \/ \E sid \in SessionIds : ApiCreate(sid)
    \/ \E sid \in SessionIds : ApiDestroy(sid)
    \/ CreateSteps
    \/ DestroySteps
    \/ \E c \in closing : CloseWebhookDone(c)
    \/ ApiSessions
    \/ ApiHealth

SpecApi == InitApi /\ [][NextApi]_vars

\* SpecMessages: one session whose client opens, receives messages and is
\* destroyed or logged out; the backend answers each forwarded message.
InitMessages == Boot({})

NextMessages ==
    \/ \E sid \in OneSession : ApiCreate(sid)
    \/ \E sid \in OneSession : ApiDestroy(sid)
    \/ CreateSteps
    \/ DestroySteps
    \/ \E c \in closing : CloseWebhookDone(c)
    \/ \E s \in 1..Len(socks), id \in UserIds, name \in UserNames :
           SockOpen(s, [id |-> id, name |-> name])
    \/ \E s \in 1..Len(socks) : OpenWebhookDone(s)
    \/ MessageSteps

SpecMessages == InitMessages /\ [][NextMessages]_vars

\* SpecRestore: the service starts with any of two session directories and
\* restores them, while create requests for them may arrive.
InitRestore == Boot(SessionIds)

NextRestore ==
    \/ \E sid \in SessionIds : ApiCreate(sid)
    \/ CreateSteps
    \/ RestoreSteps

SpecRestore == InitRestore /\ [][NextRestore]_vars

\* SpecReplies: one session whose clients open and stay open; each event
\* carries one message, and the backend answers each forwarded message.
InitReplies == Boot({})

NextReplies ==
    \/ \E sid \in OneSession : ApiCreate(sid)
    \/ CreateSteps
    \/ \E s \in 1..Len(socks), id \in UserIds, name \in UserNames :
           SockOpen(s, [id |-> id, name |-> name])
    \/ \E s \in 1..Len(socks) : OpenWebhookDone(s)
    \/ \E s \in 1..Len(socks), msg \in Messages : MessagesUpsert(s, <<msg>>)
    \/ \E f \in BagToSet(forwarding), r \in Responses : BackendDone(f, r)

SpecReplies == InitReplies /\ [][NextReplies]_vars

(* ======================================================================= *)
(* Properties                                                              *)
(* ======================================================================= *)
Range(q) == {q[i] : i \in 1..Len(q)}

Callers == {"api", "timer", "restore"}

\* the live clients opened for sid
LiveClients(sid) ==
    {s \in 1..Len(socks) : socks[s].sessionId = sid /\ Live(s)}

\* the entries of the Map under the key sid
Entries(m, sid) == {i \in 1..Len(m) : m[i].key = sid}

Task(sid, pc, caller) == [sessionId |-> sid, pc |-> pc, caller |-> caller]

\* createBotSession invocations for sid at the position pc
At(bag, sid, pc) ==
    CopiesIn(Task(sid, pc, "api"), bag) + CopiesIn(Task(sid, pc, "timer"), bag)
        + CopiesIn(Task(sid, pc, "restore"), bag)

\* createBotSession invocations for sid made by caller, at any position
By(bag, sid, caller) ==
    CopiesIn(Task(sid, "loadCreds", caller), bag)
        + CopiesIn(Task(sid, "fetchVersion", caller), bag)
        + CopiesIn(Task(sid, "catch", caller), bag)

\* this step invokes createBotSession(sid)
Invoked(sid) == At(creating', sid, "loadCreds") > At(creating, sid, "loadCreds")

\* this step invokes createBotSession(sid) from the create endpoint
InvokedByApi(sid) ==
    /\ creating' # creating
    /\ CopiesIn(Task(sid, "loadCreds", "api"), creating')
           > CopiesIn(Task(sid, "loadCreds", "api"), creating)

\* a createBotSession(sid) called by the create endpoint returns in this step
ReturnedToApi(sid) ==
    /\ creating' # creating
    /\ By(creating', sid, "api") < By(creating, sid, "api")

Disconnected(sid) == ConnectionUpdate(sid, "disconnected", Null)

\* the close handlers that run to their end in this step
Finishing == closing \ closing'

\* the close handlers that start in this step
Starting == closing' \ closing

(* C1: in every reachable state no sessionId has two live Connection       *)
(* Clients (opened by createBotSession and neither closed nor logged out). *)
C1_OneLiveClient ==
    \A sid \in SessionIds : Cardinality(LiveClients(sid)) <= 1

(* C2: a step that invokes createBotSession for a sessionId that is not    *)
(* registered leaves exactly one registry entry for it, in that same step  *)
(* (before the credential load or any other await of the invocation).      *)
C2_RegisteredInTick ==
    [][\A sid \in SessionIds :
          (Invoked(sid) /\ ~Has(activeSessions, sid))
              => Cardinality(Entries(activeSessions', sid)) = 1]_vars

(* C3: a create request without sessionId or for a registered sessionId is *)
(* answered 400, invokes no createBotSession and changes neither the       *)
(* registry nor any client; every other create request invokes             *)
(* createBotSession and is answered 200 when that returns, failed or not.  *)
C3_CreateRejectsOrAccepts ==
    [][\A sid \in SessionIds \cup {NoId} :
          /\ Http("create", sid, 400) \in Range(out')
                => /\ sid = NoId \/ Has(activeSessions, sid)
                   /\ UNCHANGED <<activeSessions, socks, creating>>
          /\ InvokedByApi(sid)
                => /\ sid # NoId
                   /\ ~Has(activeSessions, sid)
                   /\ Http("create", sid, 400) \notin Range(out')
          /\ ReturnedToApi(sid)
                => /\ Http("create", sid, 200) \in Range(out')
                   /\ \E failed \in BOOLEAN :
                          Returned(sid, "api", failed) \in Range(out')
          /\ Http("create", sid, 200) \in Range(out') => ReturnedToApi(sid)]_vars

C3_Witness_Rejected ==
    /\ Has(activeSessions, "a")
    /\ out = <<Http("create", "a", 400)>>

C5_OtherCloseReconnectsOnce ==
    [][/\ \A c \in Starting :
             /\ out' = <<Disconnected(socks[c.sock].sessionId)>>
             /\ UNCHANGED <<reconnectTimers, creating>>
       /\ \A c \in Finishing :
             c.cause # "loggedOut"
                 => /\ reconnectTimers' = reconnectTimers (+)
                           One([sessionId |-> socks[c.sock].sessionId,
                                delay |-> 3000])
                    /\ UNCHANGED creating
       /\ reconnectTimers' # reconnectTimers
             => \/ BagCardinality(reconnectTimers')
                       < BagCardinality(reconnectTimers)
                \/ \E c \in Finishing : c.cause # "loggedOut"]_vars

C5_Witness_Reconnect ==
    /\ out = <<Handled("a", "other")>>
    /\ BagIn([sessionId |-> "a", delay |-> 3000], reconnectTimers)
    /\ \E s \in 1..Len(socks) : s > 1 /\ socks[s].status = "closed"

\* the /bot/destroy requests that get (More) or lose (Fewer) a copy of d
More(d) == CopiesIn(d, destroying') > CopiesIn(d, destroying)

Fewer(d) == CopiesIn(d, destroying') < CopiesIn(d, destroying)

Requests == BagToSet(destroying) \cup BagToSet(destroying')

\* the request d arrives in this step
Arrives(d) ==
    More(d) /\ BagCardinality(destroying') > BagCardinality(destroying)

\* the answers of /bot/destroy to requests that carry a sessionId
DestroyAnswers(q) ==
    {q[i].status : i \in {j \in 1..Len(q) :
        q[j].type = "http" /\ q[j].op = "destroy" /\ q[j].sessionId # NoId}}

(* C7: a destroy request for a sessionId that is not registered goes       *)
(* straight to the deletion of its directory, leaves the registry and the  *)
(* clients as they are and is answered 200; when the directory is already  *)
(* gone (as after a first destroy) it changes nothing at all, so a second  *)
(* destroy in a row succeeds and ends in the state the first one left.     *)
C7_DestroyUnknownIsNoOp ==
    [][/\ DestroyAnswers(out') \subseteq {200}
       /\ \A d \in Requests :
             /\ (Arrives(d) /\ ~Has(activeSessions, d.sessionId))
                   => /\ d.pc = "rm" /\ d.sock = Undefined
                      /\ UNCHANGED <<activeSessions, socks, disk>>
             /\ (Fewer(d) /\ d.sock = Undefined)
                   => /\ out' = <<Http("destroy", d.sessionId, 200)>>
                      /\ UNCHANGED <<activeSessions, socks, creating,
                                     reconnectTimers, closing>>
                      /\ disk' \in {disk, disk \ {d.sessionId}}
                      /\ d.sessionId \notin disk => disk' = disk]_vars

C7_Witness_Unknown ==
    /\ out = <<Http("destroy", "a", 200)>>
    /\ socks = <<>>
    /\ creating = EmptyBag
    /\ "a" \notin disk

(* C8: a destroy request for a registered sessionId calls logout on the    *)
(* registered client; when logout settles, resolved or rejected, the       *)
(* sessionId is no longer in the registry and the request goes on to the   *)
(* deletion of the directory; it is answered 200 whether that deletion     *)
(* succeeds or fails.                                                      *)
C8_DestroyRemovesAndSucceeds ==
    [][/\ DestroyAnswers(out') \subseteq {200}
       /\ \A d \in Requests :
             /\ (Arrives(d) /\ Has(activeSessions, d.sessionId))
                   => /\ d.pc = "logout"
                      /\ d.sock = Get(activeSessions, d.sessionId)
             /\ (Fewer(d) /\ d.pc = "logout")
                   => /\ ~Has(activeSessions', d.sessionId)
                      /\ More([d EXCEPT !.pc = "rm"])
             /\ (Fewer(d) /\ d.pc = "rm")
                   => out' = <<Http("destroy", d.sessionId, 200)>>]_vars

\* logout rejected on a live client: the session is removed all the same
C8_Witness_LogoutFailed ==
    \E d \in BagToSet(destroying) :
        /\ d.pc = "rm" /\ d.sock # Undefined
        /\ Live(d.sock)
        /\ ~Has(activeSessions, d.sessionId)

(* C9: when createBotSession fails, exactly one disconnected webhook with  *)
(* phoneInfo null is issued, the call returns normally to its caller (the  *)
(* create endpoint answers 200), and when it returns the sessionId is not  *)
(* in the registry, whoever the caller is (endpoint, timer, restore).      *)
C9_FailedCreateLeavesAbsent ==
    [][\A sid \in SessionIds :
          /\ At(creating', sid, "catch") > At(creating, sid, "catch")
                => out' = <<Disconnected(sid)>>
          /\ \A caller \in Callers :
                Returned(sid, caller, TRUE) \in Range(out')
                    => /\ ~Has(activeSessions', sid)
                       /\ caller = "api"
                             => Http("create", sid, 200) \in Range(out')]_vars

\* the heartbeat webhooks in q
Heartbeats(q) ==
    {q[i].data.sessionId : i \in {j \in 1..Len(q) :
        q[j].type = "webhook" /\ q[j].endpoint = "/api/webhook/wa/heartbeat"}}

(* C6: a heartbeat webhook is issued for a sessionId only while it is in   *)
(* the registry (an interval stops at its first tick after the removal),   *)
(* and only if the sessionId has had an open event since it was last       *)
(* removed, also when it is created again before the old interval ticks.   *)
C6_HeartbeatNeedsFreshOpen ==
    \A sid \in Heartbeats(out) :
        Has(activeSessions, sid) /\ openedSince[sid]

\* the answers of GET /bot/sessions and GET /health in q
Answers(q, op) ==
    {q[i] : i \in {j \in 1..Len(q) : q[j].type = "http" /\ q[j].op = op}}

Registered == {sid \in SessionIds : Has(activeSessions, sid)}

(* C10: GET /bot/sessions answers the sessionIds in the registry, each     *)
(* once, with count their number, and GET /health answers that number as   *)
(* activeSessions; with "a" and "b" created and "a" destroyed the answer   *)
(* is sessions ["b"], count 1.                                             *)
C10_ListIsRegistry ==
    /\ \A r \in Answers(out, "sessions") :
          /\ Range(r.sessions) = Registered
          /\ Len(r.sessions) = Cardinality(Registered)
          /\ r.count = Cardinality(Registered)
          /\ Registered = {"b"} => r.sessions = <<"b">> /\ r.count = 1
    /\ \A r \in Answers(out, "health") :
          r.activeSessions = Cardinality(Registered)

\* "a" and "b" were created, "a" was destroyed, the list is asked for
C10_Witness_Scenario ==
    /\ out = <<HttpList(<<"b">>, 1)>>
    /\ \E s \in 1..Len(socks) :
          socks[s].sessionId = "a" /\ socks[s].status = "closed"
    /\ \E s \in 1..Len(socks) : socks[s].sessionId = "b" /\ Live(s)
    /\ destroying = EmptyBag
    /\ "a" \notin disk

\* the sendMessage calls among the records q
Sends(q) == SelectSeq(q, LAMBDA r : r.type = "sendMessage")

\* the forwardToLaravel call f gets its response in this step
Answered(f) == CopiesIn(f, forwarding') < CopiesIn(f, forwarding)

(* C11: when the backend answers a forwarded message of sender S with a    *)
(* non-empty reply R, sendMessage is invoked exactly once, on the client   *)
(* that received the message, with target S and text R; when the response  *)
(* has no reply or the POST fails, sendMessage is not invoked; no other    *)
(* step invokes it.                                                        *)
C11_ReplySentOnce ==
    [][/\ \A f \in BagToSet(forwarding) :
            Answered(f)
                => \E r \in Responses :
                       /\ out'[1] = Response(f, r)
                       /\ Sends(out') =
                              IF r.ok /\ r.reply \notin {Null, <<"">>}
                              THEN <<SendMessage(f.sock, f.sender,
                                                 r.reply[1])>>
                              ELSE <<>>
       /\ (\A f \in BagToSet(forwarding) : ~Answered(f))
              => Sends(out') = <<>>]_vars

\* a reply went out
C11_Witness_Replied ==
    /\ Len(out) = 2
    /\ out[1].type = "response"
    /\ out[1].response.reply = <<"pong">>
    /\ out[2] = SendMessage(out[1].to.sock, "628@s.whatsapp.net", "pong")

\* the message is not from the account itself and has content
Qualifies(msg) == ~msg.fromMe /\ msg.message # NoMessage

\* the incoming-message webhooks among the records q
Incoming(q) ==
    SelectSeq(q, LAMBDA r : /\ r.type = "webhook"
                            /\ r.endpoint = "/api/webhook/wa/incoming-message")

\* one incoming-message webhook for each qualifying message of m
Expected(sid, m) ==
    LET q == SelectSeq(m, Qualifies)
    IN  [i \in 1..Len(q) |->
            IncomingMessage(sid, q[i].remoteJid, messageText(q[i].message[1]))]

(* C12: a step that handles a messages.upsert event issues exactly one     *)
(* incoming-message webhook {sessionId, from, text} for each message of    *)
(* the event that is not from the own account and has content, and none    *)
(* for the other messages, whatever the number of messages in the event;   *)
(* no other step issues such a webhook.                                    *)
C12_EveryMessageForwarded ==
    [][IF out' # <<>> /\ out'[1].type = "event"
       THEN Incoming(out') =
                Expected(socks[out'[1].sock].sessionId, out'[1].messages)
       ELSE Incoming(out') = <<>>]_vars

\* the connected webhooks among the records q
Connected(q) ==
    {r \in Range(q) : /\ r.type = "webhook"
                      /\ r.endpoint = "/api/webhook/wa/connection-update"
                      /\ r.data.status = "connected"}

(* C13: the connected webhook of an open event carries phoneInfo           *)
(* {jid, name, phone} whose phone is the number part of the account id,    *)
(* with neither the "@domain" nor a ":device" suffix; for the account id   *)
(* "123@s.whatsapp.net" the phone is "123".                                *)
C13_PhoneIsBareNumber ==
    \A r \in Connected(out) :
        LET p == r.data.phoneInfo[1]
        IN  /\ DOMAIN p = {"jid", "name", "phone"}
            /\ "@" \notin Range(p.phone)
            /\ ":" \notin Range(p.phone)
            /\ p.jid = <<"123", "@", "s.whatsapp.net">> => p.phone = <<"123">>

\* a createBotSession(sid) called by the create endpoint gets its
\* credentials loaded in this step
LoadedForApi(sid) ==
    /\ CopiesIn(Task(sid, "loadCreds", "api"), creating')
           < CopiesIn(Task(sid, "loadCreds", "api"), creating)
    /\ CopiesIn(Task(sid, "fetchVersion", "api"), creating')
           > CopiesIn(Task(sid, "fetchVersion", "api"), creating)

(* C14: once /bot/destroy has answered for a sessionId, and until          *)
(* /bot/create accepts it again, the sessionId stays out of the registry   *)
(* and its session directory stays deleted: only a createBotSession called *)
(* by the create endpoint registers it or creates the directory again, a   *)
(* reconnect timer armed before or during the destroy does not.            *)
C14_DestroyedStaysDestroyed ==
    [][\A sid \in SessionIds :
          destroyedSince[sid]
              => /\ (~Has(activeSessions, sid) /\ Has(activeSessions', sid))
                        => ReturnedToApi(sid)
                 /\ (sid \notin disk /\ sid \in disk')
                        => LoadedForApi(sid)]_vars

\* the intervals of startHeartbeat(sid) that are armed
Intervals(sid) ==
    CopiesIn([sessionId |-> sid, every |-> HeartbeatInterval], heartbeats)

(* C15: at any time a sessionId has at most one armed heartbeat interval,  *)
(* also after close / reconnect / open cycles and after a destroy followed *)
(* by a create of the same sessionId.                                      *)
C15_OneHeartbeatTimer ==
    \A sid \in SessionIds : Intervals(sid) <= 1

(* C16: a heartbeat webhook is issued for a sessionId only while its       *)
(* session is open, that is while its registered client is open: none      *)
(* after the connection has closed and before the next open event.         *)
C16_HeartbeatOnlyWhileOpen ==
    \A sid \in Heartbeats(out) :
        /\ Has(activeSessions, sid)
        /\ socks[Get(activeSessions, sid)].status = "open"

\* a close handler, a reconnect timer or a createBotSession is under way
\* for sid
Pending(sid) ==
    \/ \E c \in closing : socks[c.sock].sessionId = sid
    \/ \E tm \in BagToSet(reconnectTimers) : tm.sessionId = sid
    \/ \E t \in BagToSet(creating) : t.sessionId = sid

(* C17: a session that is in the registry after its connection closed      *)
(* never rests with neither a live client nor a reconnect attempt under    *)
(* way (a close handler still running, an armed reconnect timer or a       *)
(* createBotSession in flight): a reconnect attempt that fails is followed *)
(* by a further one.                                                       *)
C17_ClosedSessionRetries ==
    \A sid \in SessionIds :
        Has(activeSessions, sid)
            => Live(Get(activeSessions, sid)) \/ Pending(sid)

\* the createBotSession invocations of restoreSessions in flight
Restoring == {t \in BagToSet(creating) : t.caller = "restore"}

\* this step invokes createBotSession(sid) from restoreSessions
InvokedByRestore(sid) ==
    CopiesIn(Task(sid, "loadCreds", "restore"), creating')
        > CopiesIn(Task(sid, "loadCreds", "restore"), creating)

(* C18: restoreSessions lists the directories under ./sessions and calls   *)
(* createBotSession once for each, in the listed order and one at a time:  *)
(* a call starts only when the one before has returned, the return of a    *)
(* call, failed or not, lets the loop go on to the next directory, and the *)
(* loop ends only when every listed directory has had its call.            *)
C18_RestoreOncePerDirectory ==
    [][/\ (restore.pc = "start" /\ restore'.pc # "start")
            => restore'.listed \in Orders(disk)
       /\ \A sid \in SessionIds :
             InvokedByRestore(sid)
                 => /\ Restoring = {}
                    /\ sid = restore.listed[Len(restore.called) + 1]
                    /\ restore'.called = Append(restore.called, sid)
       /\ restore'.called # restore.called
             => \E sid \in SessionIds : InvokedByRestore(sid)
       /\ \A t \in Restoring' : CopiesIn(t, creating') = 1
       /\ Cardinality(Restoring') <= 1
       /\ \A sid \in SessionIds, failed \in BOOLEAN :
             Returned(sid, "restore", failed) \in Range(out')
                 => /\ Restoring' = {}
                    /\ restore'.pc = IF restore'.called = restore'.listed
                                     THEN "done" ELSE "ready"
       /\ restore'.pc = "done" => restore'.called = restore'.listed]_vars

\* both directories had their call; the first call failed, the second
\* returned with its client registered
C18_Witness_SecondAfterFailure ==
    /\ restore.pc = "done"
    /\ Len(restore.called) = 2
    /\ out = <<Returned(restore.called[2], "restore", FALSE)>>
    /\ ~Has(activeSessions, restore.called[1])
    /\ Len(socks) = 1

\* the unhandled rejections among the records q
Unhandled(q) == {r \in Range(q) : r.type = "unhandledRejection"}

(* C19: the messages.upsert listener never ends in an uncaught error,      *)
(* whatever the event (one without messages included) and also when the    *)
(* session is destroyed while forwardToLaravel awaits the backend; the     *)
(* listener leaves the registry as it is, so a sessionId that the destroy  *)
(* removed is still absent when the listener finishes.                     *)
C19_HandlerNeverThrows ==
    [][/\ Unhandled(out') = {}
       /\ \A f \in BagToSet(forwarding) :
             (Answered(f) /\ ~Has(activeSessions, f.sessionId))
                 => ~Has(activeSessions', f.sessionId)]_vars

(* C20: when the close handler of a client runs to its end while another   *)
(* client is the one registered for its sessionId, it leaves the registry  *)
(* as it is and arms no reconnect timer (whose createBotSession would      *)
(* replace the registered client).                                        *)
C20_StaleCloseHasNoEffect ==
    [][\A c \in Finishing :
          Get(activeSessions, socks[c.sock].sessionId)
                  \notin {Undefined, c.sock}
              => UNCHANGED <<activeSessions, reconnectTimers>>]_vars

====
